---- MODULE Spec2Model ----
(***************************************************************************)
(* A model of the read-pair simulation engine of InSilicoSeq:              *)
(*   iss/generator.py  reads, simulate_read, to_fastq, concatenate,        *)
(*                     cleanup                                             *)
(*   iss/util.py       rev_comp, reservoir                                 *)
(* Sequences are TLA+ sequences of one-letter strings, positions are       *)
(* 0-based as in the source, files are sequences of FASTQ records.         *)
(***************************************************************************)
EXTENDS Integers, Sequences, FiniteSets, TLC

\* ------------------------------------------------------------- bounds
MaxRefLen == 12
MaxReadLen == 5
MaxInsert == 3
MaxIndex == 1
MaxPairs == 2
ReadsReadLen == 3
MaxFiles == 3
MaxTotal == 5

\* ------------------------------------------------------------ helpers
None == "None"
Unset == -1

Max(a, b) == IF a >= b THEN a ELSE b
Min(a, b) == IF a <= b THEN a ELSE b

\* a slice index of Python: a negative one counts from the end, and both
\* ends are clamped to the sequence
SliceIndex(a, n) == IF a < 0 THEN Max(a + n, 0) ELSE Min(a, n)

\* s[a:b] of Python
Slice(s, a, b) ==
    IF SliceIndex(a, Len(s)) >= SliceIndex(b, Len(s))
    THEN <<>>
    ELSE SubSeq(s, SliceIndex(a, Len(s)) + 1, SliceIndex(b, Len(s)))

\* random.randrange(a, b): the values it can return; empty = ValueError
randrange(a, b) == IF a < b THEN a .. (b - 1) ELSE {}

Bases == <<"A", "C", "G", "T">>
RefSeq(k) == [j \in 1..k |-> Bases[((j - 1) % 4) + 1]]

\* util.rev_comp: the table of the unambiguous upper-case bases
Complement(b) ==
    CASE b = "A" -> "T"
      [] b = "C" -> "G"
      [] b = "G" -> "C"
      [] b = "T" -> "A"

rev_comp(s) == [j \in 1..Len(s) |-> Complement(s[Len(s) + 1 - j])]

\* '%s_%s_1' % (header, i)
ReadId(header, idx, mate) == header \o "_" \o ToString(idx) \o "_" \o ToString(mate)

\* --------------------------------------------------------- error model
\* An ErrorModel is a record: its read_length, the orientations whose reads
\* its indel step shortens, and whether its mutation step substitutes.
Orientations == {"forward", "reverse"}

ErrorModels(lengths) ==
    [read_length : lengths, deletes : SUBSET Orientations, mutates : BOOLEAN]

\* ErrorModel.random_insert_size(): the values it can return
InsertSizes == 0..MaxInsert

\* ErrorModel.introduce_indels(read, orientation, sequence, bounds): the
\* sequence, with its last base deleted when the model deletes there
introduce_indels(EM, read, orientation, sequence, bounds) ==
    IF orientation \in EM.deletes /\ Len(read.seq) > 1
    THEN SubSeq(read.seq, 1, Len(read.seq) - 1)
    ELSE read.seq

QualOf(orientation) == IF orientation = "forward" THEN 40 ELSE 30

\* ErrorModel.introduce_error_scores(read, orientation): one quality per base
introduce_error_scores(EM, read, orientation) ==
    [read EXCEPT !.qual = [j \in 1..Len(read.seq) |-> QualOf(orientation)]]

\* ErrorModel.mut_sequence(read, orientation): the sequence, with its first
\* base substituted by G when the model mutates
mut_sequence(EM, read, orientation) ==
    IF EM.mutates /\ Len(read.seq) > 0
    THEN [read.seq EXCEPT ![1] = IF @ = "G" THEN "A" ELSE "G"]
    ELSE read.seq

\* -------------------------------------------------------------- state
VARIABLES
    sim_pc,          \* position in simulate_read
    record,          \* the reference: [id, seq]
    ErrorModel,      \* the error model in use
    insert_size,     \* the value random_insert_size() returned
    i,               \* the pair index
    forward_start, forward_end, reverse_start, reverse_end,
    forward_path,    \* which branch set forward_start: primary or fallback
    reverse_path,    \* which branch set reverse_end: primary or fallback
    forward, reverse,\* the two reads
    calls,           \* ErrorModel calls and read constructions, in order
    exit_status,     \* 0 while running, the status of sys.exit otherwise
    reads_pc,        \* position in reads
    n_pairs, gc_bias, cpu_number, output,
    read_tuple_list, \* the accepted pairs
    synthesized,     \* every pair simulate_read returned to reads, in order
    ret,             \* the value reads returned
    fs,              \* the files that exist: path -> sequence of records
    readonly,        \* the paths that cannot be opened for writing
    fs0,             \* the files as they were when the operation was called
    merge_pc,        \* position in concatenate or cleanup
    file_list,       \* the temporary prefixes, None for an absent one
    file_idx,        \* the entry of file_list the loop is at (from 1)
    res_pc,          \* position in reservoir
    record_list,     \* the ids of the records of the source, in order
    n,               \* the number of records asked for, NoSample for None
    samples,         \* the sorted positions still to yield
    x,               \* reservoir's count of the records it has consumed
    records_pos,     \* the number of records the source iterator has given
    yielded          \* the records yielded so far

simVars == <<sim_pc, record, ErrorModel, insert_size, i, forward_start,
             forward_end, reverse_start, reverse_end, forward_path,
             reverse_path, forward, reverse, calls, exit_status>>

readsData == <<n_pairs, gc_bias, cpu_number, output, read_tuple_list,
               synthesized, ret>>

fsVars == <<fs, readonly, fs0>>

mergeVars == <<merge_pc, file_list, file_idx>>

resVars == <<res_pc, record_list, n, samples, x, records_pos, yielded>>

vars == <<simVars, reads_pc, readsData, fsVars, mergeVars, resVars>>

read_length == ErrorModel.read_length

NoRead == [id |-> "", seq |-> <<>>, qual |-> <<>>]

\* SeqRecord(Seq(...), id=..., description='')
SeqRecord(seq, id) == [id |-> id, seq |-> seq, qual |-> <<>>]

\* ------------------------------------------------------ simulate_read
\* the assertion written with <= instead of <
ReadLengthAssertion_OrEqual(R, L) == R <= L

\* line 94: assert read_length < len(record.seq)
ReadLengthAssertion(R, L) == R < L

\* the primary draw leaving room for one read only, not for the pair
ForwardStarts_OneReadRoom(L, R, I) ==
    IF randrange(0, L - (R + I)) # {}
    THEN randrange(0, L - (R + I))
    ELSE { Max(0, d) : d \in randrange(0, L - R) }

\* lines 95-107: the values forward_start can take once the assertion has
\* passed; empty when the ValueError of the fallback draw escapes
ForwardStarts(L, R, I) ==
    IF randrange(0, L - (2 * R + I)) # {}
    THEN randrange(0, L - (2 * R + I))
    ELSE { Max(0, d) : d \in randrange(0, L - R) }

ForwardPath(L, R, I) ==
    IF randrange(0, L - (2 * R + I)) # {} THEN "primary" ELSE "fallback"

\* the fallback draw of reverse_end starting at 0 instead of read_length
ReverseBounds_FromZero(L, R, I, fwd_end) ==
    LET rs == fwd_end + I
        re == rs + R
    IN  IF re < L
        THEN { <<rs, re>> }
        ELSE { <<e - R, e>> : e \in randrange(0, L) }

\* lines 127-135: the (reverse_start, reverse_end) pairs; empty when the
\* ValueError of the fallback draw escapes
ReverseBounds(L, R, I, fwd_end) ==
    LET rs == fwd_end + I
        re == rs + R
    IN  IF re < L
        THEN { <<rs, re>> }
        ELSE { <<e - R, e>> : e \in randrange(R, L) }

ReversePath(L, R, I, fwd_end) ==
    IF fwd_end + I + R < L THEN "primary" ELSE "fallback"

\* lines 121-124 and 146-149: indels, then scores, then mutation
ApplyErrorModel(EM, perfect, orientation, sequence, bounds) ==
    LET indel  == [perfect EXCEPT !.seq =
                      introduce_indels(EM, perfect, orientation, sequence, bounds)]
        scored == introduce_error_scores(EM, indel, orientation)
    IN  [scored EXCEPT !.seq = mut_sequence(EM, scored, orientation)]

ErrorModelCalls == <<"introduce_indels", "introduce_error_scores", "mut_sequence">>

\* lines 86-91
SimEnter ==
    /\ sim_pc = "start"
    /\ \E s \in InsertSizes : insert_size' = s
    /\ calls' = <<"random_insert_size">>
    /\ sim_pc' = "forward"
    /\ UNCHANGED <<record, ErrorModel, i, forward_start, forward_end,
                   reverse_start, reverse_end, forward_path, reverse_path,
                   forward, reverse, exit_status, reads_pc, readsData, fsVars>>
    /\ UNCHANGED <<mergeVars, resVars>>

\* lines 93-101: the assertion fails, sys.exit(1)
SimFatal ==
    /\ sim_pc = "forward"
    /\ ~ReadLengthAssertion(read_length, Len(record.seq))
    /\ sim_pc' = "exit"
    /\ exit_status' = 1
    /\ reads_pc' = (IF reads_pc = "call" THEN "exit" ELSE reads_pc)
    /\ UNCHANGED <<record, ErrorModel, insert_size, i, forward_start,
                   forward_end, reverse_start, reverse_end, forward_path,
                   reverse_path, forward, reverse, calls, readsData, fsVars>>
    /\ UNCHANGED <<mergeVars, resVars>>

\* lines 93-124: the assertion; forward_start, the perfect read and the three
\* ErrorModel calls
SimForward ==
    /\ sim_pc = "forward"
    /\ ReadLengthAssertion(read_length, Len(record.seq))
    /\ LET starts == ForwardStarts(Len(record.seq), read_length, insert_size)
       IN  IF starts = {}
           THEN /\ sim_pc' = "raised"
                /\ UNCHANGED <<forward_start, forward_end, forward,
                               forward_path, calls>>
           ELSE /\ \E s \in starts :
                     LET e == s + read_length
                         perfect == SeqRecord(Slice(record.seq, s, e),
                                              ReadId(record.id, i, 1))
                     IN  /\ forward_start' = s
                         /\ forward_end' = e
                         /\ forward' = ApplyErrorModel(ErrorModel, perfect,
                                           "forward", record.seq, <<s, e>>)
                /\ forward_path' = ForwardPath(Len(record.seq), read_length,
                                               insert_size)
                /\ calls' = calls \o <<"SeqRecord">> \o ErrorModelCalls
                /\ sim_pc' = "reverse"
    /\ UNCHANGED <<record, ErrorModel, insert_size, i, reverse_start,
                   reverse_end, reverse_path, reverse, exit_status,
                   reads_pc, readsData, fsVars>>
    /\ UNCHANGED <<mergeVars, resVars>>

\* lines 127-151: the reverse bounds, the perfect read, the three calls, return
SimReverse ==
    /\ sim_pc = "reverse"
    /\ LET ends == ReverseBounds(Len(record.seq), read_length, insert_size,
                                 forward_end)
       IN  IF ends = {}
           THEN /\ sim_pc' = "raised"
                /\ UNCHANGED <<reverse_start, reverse_end, reverse,
                               reverse_path, calls>>
           ELSE /\ \E b \in ends :
                     LET perfect == SeqRecord(
                                        rev_comp(Slice(record.seq, b[1], b[2])),
                                        ReadId(record.id, i, 2))
                     IN  /\ reverse_start' = b[1]
                         /\ reverse_end' = b[2]
                         /\ reverse' = ApplyErrorModel(ErrorModel, perfect,
                                           "reverse", record.seq, b)
                /\ reverse_path' = ReversePath(Len(record.seq), read_length,
                                               insert_size, forward_end)
                /\ calls' = calls \o <<"SeqRecord">> \o ErrorModelCalls
                /\ sim_pc' = "returned"
    /\ UNCHANGED <<record, ErrorModel, insert_size, i, forward_start,
                   forward_end, forward_path, forward, exit_status,
                   reads_pc, readsData, fsVars>>
    /\ UNCHANGED <<mergeVars, resVars>>

\* --------------------------------------------------------- the files
R1(prefix) == prefix \o "_R1.fastq"
R2(prefix) == prefix \o "_R2.fastq"

\* the file opened with 'w': earlier content is lost
OpenAppend_Truncating(f, path) ==
    [q \in DOMAIN f \cup {path} |-> IF q = path THEN <<>> ELSE f[q]]

\* open(path, 'a'): the file is created when absent, its content is kept
OpenAppend(f, path) ==
    [q \in DOMAIN f \cup {path} |-> IF q \in DOMAIN f THEN f[q] ELSE <<>>]

\* an existing output file kept, as open(..., 'ab') would
OpenTruncate_Keeping(f, path) ==
    [q \in DOMAIN f \cup {path} |-> IF q \in DOMAIN f THEN f[q] ELSE <<>>]

\* open(path, 'wb'): the file is created or emptied
OpenTruncate(f, path) ==
    [q \in DOMAIN f \cup {path} |-> IF q = path THEN <<>> ELSE f[q]]

\* handle.write(data) on an open file
Write(f, path, data) == [f EXCEPT ![path] = @ \o data]

\* os.remove(path) of an existing file
Remove(f, path) == [q \in DOMAIN f \ {path} |-> f[q]]

\* SeqIO.write(read, handle, 'fastq-sanger'): the four lines of a record, the
\* qualities as Phred+33
FastqRecord(read) ==
    <<"@" \o read.id, read.seq, "+", [j \in 1..Len(read.qual) |-> read.qual[j] + 33]>>

\* ------------------------------------------------------------ to_fastq
\* lines 176-179: each pair in turn, the forward read to f, the reverse to r
RECURSIVE WritePairs(_, _, _, _)
WritePairs(f, generator, output_forward, output_reverse) ==
    IF generator = <<>>
    THEN f
    ELSE WritePairs(
             Write(Write(f, output_forward, <<FastqRecord(Head(generator)[1])>>),
                   output_reverse, <<FastqRecord(Head(generator)[2])>>),
             Tail(generator), output_forward, output_reverse)

\* lines 164-179: the files afterwards and the exit status (0: it returned)
to_fastq(f, ro, generator, prefix) ==
    LET output_forward == R1(prefix)
        output_reverse == R2(prefix)
    IN  IF output_forward \in ro
        THEN [fs |-> f, status |-> 1]
        ELSE IF output_reverse \in ro
        THEN [fs |-> OpenAppend(f, output_forward), status |-> 1]
        ELSE [fs |-> WritePairs(OpenAppend(OpenAppend(f, output_forward),
                                           output_reverse),
                                generator, output_forward, output_reverse),
              status |-> 0]

\* --------------------------------------------------------------- reads
\* Bio.SeqUtils.GC counts G, C and S in either case
GCCount(seq) ==
    Cardinality({ j \in 1..Len(seq) : seq[j] \in {"G", "C", "S", "g", "c", "s"} })

\* the band cut at 50
GCInBand_UpTo50(seq) ==
    /\ Len(seq) > 0
    /\ 40 * Len(seq) < 100 * GCCount(seq)
    /\ 100 * GCCount(seq) < 50 * Len(seq)

\* line 57: 40 < gc_content < 60, gc_content = 100 * count / length (0 when
\* the sequence is empty), compared without the division
GCInBand(seq) ==
    /\ Len(seq) > 0
    /\ 40 * Len(seq) < 100 * GCCount(seq)
    /\ 100 * GCCount(seq) < 60 * Len(seq)

\* line 66: output + '.iss.tmp.%s.%s' % (record.id, cpu_number)
TempFileName(out, id, cpu) == out \o ".iss.tmp." \o id \o "." \o ToString(cpu)

\* the return of the commented-out lines 48-52: nothing for an empty worker
ReadsReturn_NoneWhenEmpty(tuples, name) == IF tuples = <<>> THEN None ELSE name

\* line 69: the value reads returns
ReadsReturn(tuples, name) == name

SimLocalsReset ==
    /\ insert_size' = Unset
    /\ forward_start' = Unset /\ forward_end' = Unset
    /\ reverse_start' = Unset /\ reverse_end' = Unset
    /\ forward_path' = "none" /\ reverse_path' = "none"
    /\ forward' = NoRead /\ reverse' = NoRead
    /\ calls' = <<>>

\* line 46
ReadsEnter ==
    /\ reads_pc = "start"
    /\ read_tuple_list' = <<>>
    /\ i' = 0
    /\ reads_pc' = "loop"
    /\ UNCHANGED <<sim_pc, record, ErrorModel, insert_size, forward_start,
                   forward_end, reverse_start, reverse_end, forward_path,
                   reverse_path, forward, reverse, calls, exit_status,
                   n_pairs, gc_bias, cpu_number, output, synthesized, ret,
                   fsVars>>
    /\ UNCHANGED <<mergeVars, resVars>>

\* lines 47 and 53: the next iteration calls simulate_read(record, ErrorModel, i)
ReadsCall ==
    /\ reads_pc = "loop"
    /\ i < n_pairs
    /\ reads_pc' = "call"
    /\ sim_pc' = "start"
    /\ UNCHANGED <<record, ErrorModel, insert_size, i, forward_start,
                   forward_end, reverse_start, reverse_end, forward_path,
                   reverse_path, forward, reverse, calls, exit_status,
                   readsData, fsVars>>
    /\ UNCHANGED <<mergeVars, resVars>>

\* lines 54-64: the pair simulate_read returned is kept or skipped
ReadsFilter ==
    /\ reads_pc = "call"
    /\ sim_pc = "returned"
    /\ IF gc_bias
       THEN IF GCInBand(forward.seq \o reverse.seq)
            THEN read_tuple_list' = Append(read_tuple_list, <<forward, reverse>>)
            ELSE \/ read_tuple_list' = Append(read_tuple_list, <<forward, reverse>>)
                 \/ read_tuple_list' = read_tuple_list
       ELSE read_tuple_list' = Append(read_tuple_list, <<forward, reverse>>)
    /\ synthesized' = Append(synthesized, <<forward, reverse>>)
    /\ i' = i + 1
    /\ reads_pc' = "loop"
    /\ sim_pc' = "idle"
    /\ SimLocalsReset
    /\ UNCHANGED <<record, ErrorModel, exit_status, n_pairs, gc_bias,
                   cpu_number, output, ret, fsVars>>
    /\ UNCHANGED <<mergeVars, resVars>>

\* lines 66-69: the loop is over; to_fastq, then the return
ReadsWrite ==
    /\ reads_pc = "loop"
    /\ ~(i < n_pairs)
    /\ LET temp_file_name == TempFileName(output, record.id, cpu_number)
           written == to_fastq(fs, readonly, read_tuple_list, temp_file_name)
       IN  /\ fs0' = fs
           /\ fs' = written.fs
           /\ IF written.status = 0
              THEN /\ ret' = ReadsReturn(read_tuple_list, temp_file_name)
                   /\ reads_pc' = "returned"
                   /\ UNCHANGED exit_status
              ELSE /\ reads_pc' = "exit"
                   /\ exit_status' = written.status
                   /\ UNCHANGED ret
    /\ UNCHANGED <<sim_pc, record, ErrorModel, insert_size, i, forward_start,
                   forward_end, reverse_start, reverse_end, forward_path,
                   reverse_path, forward, reverse, calls, n_pairs, gc_bias,
                   cpu_number, output, read_tuple_list, synthesized, readonly>>
    /\ UNCHANGED <<mergeVars, resVars>>

\* ------------------------------------------- simulate_read on its own
SimRecords == { [id |-> "chr1", seq |-> RefSeq(k)] : k \in 1..MaxRefLen }

SimLocalsInit ==
    /\ insert_size = Unset
    /\ forward_start = Unset /\ forward_end = Unset
    /\ reverse_start = Unset /\ reverse_end = Unset
    /\ forward_path = "none" /\ reverse_path = "none"
    /\ forward = NoRead /\ reverse = NoRead
    /\ calls = <<>>

SimIdle ==
    /\ sim_pc = "idle"
    /\ record = [id |-> "chr1", seq |-> RefSeq(1)]
    /\ ErrorModel = [read_length |-> 1, deletes |-> {}, mutates |-> FALSE]
    /\ i = 0
    /\ SimLocalsInit

ReadsIdle ==
    /\ reads_pc = "none"
    /\ n_pairs = 0 /\ gc_bias = FALSE /\ cpu_number = 0 /\ output = "out"
    /\ read_tuple_list = <<>> /\ synthesized = <<>> /\ ret = None

FilesIdle ==
    /\ fs = <<>> /\ readonly = {} /\ fs0 = <<>>

MergeIdle ==
    /\ merge_pc = "none" /\ file_list = <<>> /\ file_idx = 0

ReservoirIdle ==
    /\ res_pc = "none" /\ record_list = <<>> /\ n = 0 /\ samples = <<>>
    /\ x = 0 /\ records_pos = 0 /\ yielded = <<>>

InitSim ==
    /\ sim_pc = "start"
    /\ record \in SimRecords
    /\ ErrorModel \in ErrorModels(1..MaxReadLen)
    /\ i \in 0..MaxIndex
    /\ SimLocalsInit
    /\ exit_status = 0
    /\ ReadsIdle
    /\ FilesIdle
    /\ MergeIdle
    /\ ReservoirIdle

NextSim == SimEnter \/ SimFatal \/ SimForward \/ SimReverse

SpecSim == InitSim /\ [][NextSim]_vars

\* ----------------------------------------------------- reads, a worker
ReadsRecords ==
    { [id |-> "chr" \o ToString(k), seq |-> RefSeq(k)] :
        k \in {ReadsReadLen, ReadsReadLen + 2, ReadsReadLen + 4} }

\* a record that an earlier run left in a file
EarlierRecord(path) == <<"@" \o path, <<"N">>, "+", <<35>>>>

\* the worker's two files: both absent, or both left by an earlier run
ReadsFiles(prefix) ==
    { <<>>,
      [q \in {R1(prefix), R2(prefix)} |-> <<EarlierRecord(q)>>] }

ReadsReadonly(prefix) == { {}, {R1(prefix)}, {R2(prefix)} }

ReadsErrorModels == { m \in ErrorModels({ReadsReadLen}) : ~m.mutates }

InitReads ==
    /\ reads_pc = "start"
    /\ sim_pc = "idle"
    /\ record \in ReadsRecords
    /\ ErrorModel \in ReadsErrorModels
    /\ i = 0
    /\ SimLocalsInit
    /\ exit_status = 0
    /\ n_pairs \in 0..MaxPairs
    /\ gc_bias \in BOOLEAN
    /\ cpu_number = 0
    /\ output = "out"
    /\ read_tuple_list = <<>> /\ synthesized = <<>> /\ ret = None
    /\ fs \in ReadsFiles(TempFileName(output, record.id, cpu_number))
    /\ readonly \in ReadsReadonly(TempFileName(output, record.id, cpu_number))
    /\ fs0 = fs
    /\ MergeIdle
    /\ ReservoirIdle

NextReads ==
    \/ ReadsEnter \/ ReadsCall \/ ReadsFilter \/ ReadsWrite
    \/ SimEnter \/ SimFatal \/ SimForward \/ SimReverse

SpecReads == InitReads /\ [][NextReads]_vars

\* --------------------------------------------------------- concatenate
\* lines 196-201: both output files opened 'wb'; status 1 on a PermissionError
ConcatenateOpen(f, ro, out) ==
    IF R1(out) \in ro
    THEN [fs |-> f, status |-> 1]
    ELSE IF R2(out) \in ro
    THEN [fs |-> OpenTruncate(f, R1(out)), status |-> 1]
    ELSE [fs |-> OpenTruncate(OpenTruncate(f, R1(out)), R2(out)),
          status |-> 0]

\* lines 205-210: one entry of file_list; "missing" when an open(..., 'rb')
\* raises FileNotFoundError, which nothing catches
ConcatenateOne(f, file_name, out) ==
    IF file_name = None
    THEN [fs |-> f, status |-> "ok"]
    ELSE IF {R1(file_name), R2(file_name)} \subseteq DOMAIN f
    THEN [fs |-> Write(Write(f, R1(out), f[R1(file_name)]),
                       R2(out), f[R2(file_name)]),
          status |-> "ok"]
    ELSE [fs |-> f, status |-> "missing"]

\* lines 191-201
ConcatenateEnter ==
    /\ merge_pc = "concatenate"
    /\ LET opened == ConcatenateOpen(fs, readonly, output)
       IN  /\ fs' = opened.fs
           /\ IF opened.status = 0
              THEN /\ merge_pc' = "concatenate_loop"
                   /\ file_idx' = 1
                   /\ UNCHANGED exit_status
              ELSE /\ merge_pc' = "concatenate_exit"
                   /\ exit_status' = opened.status
                   /\ UNCHANGED file_idx
    /\ UNCHANGED <<readonly, fs0, file_list>>
    /\ UNCHANGED <<sim_pc, record, ErrorModel, insert_size, i, forward_start,
                   forward_end, reverse_start, reverse_end, forward_path,
                   reverse_path, forward, reverse, calls, reads_pc,
                   readsData, resVars>>

\* lines 204-210: the next entry of file_list
ConcatenateCopy ==
    /\ merge_pc = "concatenate_loop"
    /\ file_idx <= Len(file_list)
    /\ LET copied == ConcatenateOne(fs, file_list[file_idx], output)
       IN  /\ fs' = copied.fs
           /\ IF copied.status = "ok"
              THEN /\ file_idx' = file_idx + 1
                   /\ UNCHANGED merge_pc
              ELSE /\ merge_pc' = "concatenate_raised"
                   /\ UNCHANGED file_idx
    /\ UNCHANGED <<readonly, fs0, file_list>>
    /\ UNCHANGED <<simVars, reads_pc, readsData, resVars>>

\* line 204: the list is exhausted, concatenate returns
ConcatenateReturn ==
    /\ merge_pc = "concatenate_loop"
    /\ file_idx > Len(file_list)
    /\ merge_pc' = "concatenate_done"
    /\ UNCHANGED <<file_list, file_idx, fsVars>>
    /\ UNCHANGED <<simVars, reads_pc, readsData, resVars>>

\* ------------------------------------------------------------- cleanup
\* both files looked for before either is removed
CleanupOne_AllOrNothing(f, temp_file) ==
    IF temp_file = None
    THEN [fs |-> f, status |-> 0]
    ELSE IF {R1(temp_file), R2(temp_file)} \subseteq DOMAIN f
    THEN [fs |-> Remove(Remove(f, R1(temp_file)), R2(temp_file)), status |-> 0]
    ELSE [fs |-> f, status |-> 1]

\* lines 222-229: one entry of file_list; os.remove of a missing file raises
\* an OSError, which ends in sys.exit(1)
CleanupOne(f, temp_file) ==
    IF temp_file = None
    THEN [fs |-> f, status |-> 0]
    ELSE IF R1(temp_file) \notin DOMAIN f
    THEN [fs |-> f, status |-> 1]
    ELSE IF R2(temp_file) \notin DOMAIN f
    THEN [fs |-> Remove(f, R1(temp_file)), status |-> 1]
    ELSE [fs |-> Remove(Remove(f, R1(temp_file)), R2(temp_file)), status |-> 0]

\* cleanup(temp_file_list) called once concatenate has returned
CleanupAfterConcatenate ==
    /\ merge_pc = "concatenate_done"
    /\ merge_pc' = "cleanup_loop"
    /\ file_idx' = 1
    /\ fs0' = fs
    /\ UNCHANGED <<file_list, fs, readonly>>
    /\ UNCHANGED <<simVars, reads_pc, readsData, resVars>>

\* lines 219-221
CleanupEnter ==
    /\ merge_pc = "cleanup"
    /\ merge_pc' = "cleanup_loop"
    /\ file_idx' = 1
    /\ UNCHANGED <<file_list, fsVars>>
    /\ UNCHANGED <<simVars, reads_pc, readsData, resVars>>

\* lines 221-229: the next entry of file_list
CleanupRemove ==
    /\ merge_pc = "cleanup_loop"
    /\ file_idx <= Len(file_list)
    /\ LET removed == CleanupOne(fs, file_list[file_idx])
       IN  /\ fs' = removed.fs
           /\ IF removed.status = 0
              THEN /\ file_idx' = file_idx + 1
                   /\ UNCHANGED <<merge_pc, exit_status>>
              ELSE /\ merge_pc' = "cleanup_exit"
                   /\ exit_status' = removed.status
                   /\ UNCHANGED file_idx
    /\ UNCHANGED <<readonly, fs0, file_list>>
    /\ UNCHANGED <<sim_pc, record, ErrorModel, insert_size, i, forward_start,
                   forward_end, reverse_start, reverse_end, forward_path,
                   reverse_path, forward, reverse, calls, reads_pc,
                   readsData, resVars>>

\* line 221: the list is exhausted, cleanup returns
CleanupReturn ==
    /\ merge_pc = "cleanup_loop"
    /\ file_idx > Len(file_list)
    /\ merge_pc' = "cleanup_done"
    /\ UNCHANGED <<file_list, file_idx, fsVars>>
    /\ UNCHANGED <<simVars, reads_pc, readsData, resVars>>

\* ------------------------------------------- the merge of the workers
MergePrefixes ==
    { TempFileName("out", "chr1", 0), TempFileName("out", "chr2", 1) }

\* the records a worker left in a file: one or two, named after the file
WorkerFile(path) ==
    IF path \in { R1(TempFileName("out", "chr1", 0)),
                  R2(TempFileName("out", "chr1", 0)) }
    THEN << <<"@" \o path \o "/0", <<"A">>, "+", <<73>>>> >>
    ELSE << <<"@" \o path \o "/0", <<"C">>, "+", <<73>>>>,
            <<"@" \o path \o "/1", <<"G">>, "+", <<63>>>> >>

\* the files of a set of paths
FilesOf(paths) == [q \in paths |-> WorkerFile(q)]

\* every choice of present temporary files, with the final files absent or
\* left by an earlier run
MergeFiles ==
    { FilesOf(present \cup old) :
        present \in SUBSET UNION { {R1(t), R2(t)} : t \in MergePrefixes },
        old \in { {}, {R1("out"), R2("out")} } }

FileLists ==
    UNION { [1..len -> MergePrefixes \cup {None}] : len \in 0..MaxFiles }

InitMerge ==
    /\ merge_pc \in {"concatenate", "cleanup"}
    /\ file_list \in FileLists
    /\ file_idx = 0
    /\ output = "out"
    /\ fs \in MergeFiles
    /\ readonly \in { {}, {R1(output)}, {R2(output)} }
    /\ fs0 = fs
    /\ exit_status = 0
    /\ SimIdle
    /\ reads_pc = "none"
    /\ n_pairs = 0 /\ gc_bias = FALSE /\ cpu_number = 0
    /\ read_tuple_list = <<>> /\ synthesized = <<>> /\ ret = None
    /\ ReservoirIdle

NextMerge ==
    \/ ConcatenateEnter \/ ConcatenateCopy \/ ConcatenateReturn
    \/ CleanupAfterConcatenate \/ CleanupEnter \/ CleanupRemove \/ CleanupReturn

SpecMerge == InitMerge /\ [][NextMerge]_vars

\* ----------------------------------------------------------- reservoir
\* n=None
NoSample == -1

\* the records of the source: record_list holds their ids
SourceIds(total) == [k \in 1..total |-> "rec" \o ToString(k - 1)]

\* the population drawn from, one position too many on each side
SamplePopulation_PastEnd(total) == 0 .. total

\* line 175: range(0, total - 1)
SamplePopulation(total) == 0 .. (total - 2)

\* sorted(...)
RECURSIVE Sorted(_)
Sorted(S) ==
    IF S = {}
    THEN <<>>
    ELSE LET lo == CHOOSE a \in S : \A b \in S : a <= b
         IN  <<lo>> \o Sorted(S \ {lo})

\* line 175: sorted(random.sample(range(0, total - 1), n)), every outcome;
\* empty when random.sample raises ValueError
Samples(total, count) ==
    { Sorted(S) : S \in { T \in SUBSET SamplePopulation(total) :
                            Cardinality(T) = count } }

\* lines 164-175
ReservoirEnter ==
    /\ res_pc = "start"
    /\ IF n = NoSample
       THEN /\ res_pc' = "all"
            /\ UNCHANGED <<samples, x, exit_status>>
       ELSE IF ~(n < Len(record_list))
       THEN /\ res_pc' = "exit"
            /\ exit_status' = 1
            /\ UNCHANGED <<samples, x>>
       ELSE IF Samples(Len(record_list), n) = {}
       THEN /\ res_pc' = "raised"
            /\ UNCHANGED <<samples, x, exit_status>>
       ELSE /\ \E chosen \in Samples(Len(record_list), n) : samples' = chosen
            /\ x' = 0
            /\ res_pc' = "sampling"
            /\ UNCHANGED exit_status
    /\ UNCHANGED <<record_list, n, records_pos, yielded>>
    /\ UNCHANGED <<sim_pc, record, ErrorModel, insert_size, i, forward_start,
                   forward_end, reverse_start, reverse_end, forward_path,
                   reverse_path, forward, reverse, calls, reads_pc,
                   readsData, fsVars, mergeVars>>

\* lines 176-188: the next sample; the records before it are read and
\* dropped, the record at it is yielded. Reading past the last record of the
\* source raises StopIteration.
ReservoirYield ==
    /\ res_pc = "sampling"
    /\ samples # <<>>
    /\ LET sample  == Head(samples)
           skipped == IF x < sample THEN sample - x ELSE 0
       IN  IF records_pos + skipped + 1 > Len(record_list)
           THEN /\ res_pc' = "raised"
                /\ records_pos' = Len(record_list)
                /\ UNCHANGED <<samples, x, yielded>>
           ELSE /\ records_pos' = records_pos + skipped + 1
                /\ yielded' = Append(yielded, record_list[records_pos + skipped + 1])
                /\ x' = x + skipped + 1
                /\ samples' = Tail(samples)
                /\ UNCHANGED res_pc
    /\ UNCHANGED <<record_list, n>>
    /\ UNCHANGED <<simVars, reads_pc, readsData, fsVars, mergeVars>>

\* line 176: no sample is left, the generator ends
ReservoirEnd ==
    /\ res_pc = "sampling"
    /\ samples = <<>>
    /\ res_pc' = "done"
    /\ UNCHANGED <<record_list, n, samples, x, records_pos, yielded>>
    /\ UNCHANGED <<simVars, reads_pc, readsData, fsVars, mergeVars>>

\* lines 190-191: without n every record is yielded
ReservoirAll ==
    /\ res_pc = "all"
    /\ IF records_pos < Len(record_list)
       THEN /\ records_pos' = records_pos + 1
            /\ yielded' = Append(yielded, record_list[records_pos + 1])
            /\ UNCHANGED res_pc
       ELSE /\ res_pc' = "done"
            /\ UNCHANGED <<records_pos, yielded>>
    /\ UNCHANGED <<record_list, n, samples, x>>
    /\ UNCHANGED <<simVars, reads_pc, readsData, fsVars, mergeVars>>

InitReservoir ==
    /\ res_pc = "start"
    /\ record_list \in { SourceIds(total) : total \in 0..MaxTotal }
    /\ n \in {NoSample} \cup (0..(MaxTotal + 1))
    /\ samples = <<>> /\ x = 0 /\ records_pos = 0 /\ yielded = <<>>
    /\ exit_status = 0
    /\ SimIdle
    /\ ReadsIdle
    /\ FilesIdle
    /\ MergeIdle

NextReservoir ==
    ReservoirEnter \/ ReservoirYield \/ ReservoirEnd \/ ReservoirAll

SpecReservoir == InitReservoir /\ [][NextReservoir]_vars

\* =============================================================== claims
\* what a file held when the operation was called (nothing when absent)
Old(path) == IF path \in DOMAIN fs0 THEN fs0[path] ELSE <<>>

Chr1 == [id |-> "chr1",
         seq |-> <<"A", "C", "G", "T", "A", "C", "G", "T", "A", "C", "G", "T">>]

\* C1: in simulate_read with 1 <= read_length < len(reference) and an insert
\* size >= 0, whatever the draws, the forward bounds and the reverse bounds
\* both satisfy 0 <= start < end <= len(reference), on the primary path and on
\* the two fallback paths.
C1_BoundsWithinReference ==
    LET L == Len(record.seq)
    IN  /\ (sim_pc \in {"reverse", "returned"}) =>
              /\ 0 <= forward_start
              /\ forward_start < forward_end
              /\ forward_end <= L
        /\ (sim_pc = "returned") =>
              /\ 0 <= reverse_start
              /\ reverse_start < reverse_end
              /\ reverse_end <= L

C1_Witness ==
    /\ sim_pc = "returned"
    /\ forward_path = "fallback" /\ reverse_path = "fallback"
    /\ forward_start > 0
    /\ reverse_start = 0
    /\ reverse_end < forward_end

\* the case of C5: the call has returned for chr1, read length 4, insert 2, pair 0
C5_Case ==
    /\ sim_pc = "returned"
    /\ record = Chr1
    /\ read_length = 4
    /\ insert_size = 2
    /\ i = 0

\* C5 as stated: for chr1 = ACGTACGTACGT, read length 4, insert size 2 and
\* pair index 0 every execution yields forward bounds [0,4), reverse bounds
\* [6,10) and the identifiers chr1_0_1 and chr1_0_2.
C5_Original ==
    C5_Case =>
        /\ <<forward_start, forward_end>> = <<0, 4>>
        /\ <<reverse_start, reverse_end>> = <<6, 10>>
        /\ forward.id = "chr1_0_1"
        /\ reverse.id = "chr1_0_2"

\* C5 amended: in that case forward_start is 0 or 1 (a draw from [0, 2)), the
\* forward bounds are [s, s+4), the reverse bounds [s+6, s+10), and the
\* identifiers are chr1_0_1 and chr1_0_2.
C5_StartZeroOrOne ==
    C5_Case =>
        /\ forward_start \in {0, 1}
        /\ forward_end = forward_start + 4
        /\ reverse_start = forward_start + 6
        /\ reverse_end = forward_start + 10
        /\ forward.id = "chr1_0_1"
        /\ reverse.id = "chr1_0_2"

C5_Witness ==
    /\ C5_Case
    /\ <<forward_start, forward_end>> = <<0, 4>>
    /\ <<reverse_start, reverse_end>> = <<6, 10>>

\* C8: simulate_read has one fatal outcome. With read_length >= len(reference)
\* it exits with status 1 before any read is constructed and before any
\* ErrorModel transformation is called. With read_length < len(reference) an
\* empty primary range and a reverse_end >= len(reference) are absorbed by the
\* fallback draws: no exception escapes, nothing exits, and a pair is returned.
C8_OneFatalOutcome ==
    LET L == Len(record.seq)
        R == read_length
    IN  /\ sim_pc # "raised"
        /\ (sim_pc = "exit") =>
              /\ R >= L
              /\ exit_status = 1
              /\ calls = <<"random_insert_size">>
              /\ forward = NoRead /\ reverse = NoRead
        /\ (R >= L /\ sim_pc \notin {"start", "forward"}) => sim_pc = "exit"
        /\ (R < L) => (exit_status = 0 /\ sim_pc # "exit")
        /\ (R < L /\ sim_pc = "forward") => ENABLED SimForward
        /\ (sim_pc = "reverse") => ENABLED SimReverse
        /\ (sim_pc = "returned") =>
              /\ forward.id = ReadId(record.id, i, 1)
              /\ reverse.id = ReadId(record.id, i, 2)
              /\ forward.seq # <<>> /\ reverse.seq # <<>>

C8_Witness ==
    /\ sim_pc = "exit"
    /\ exit_status = 1
    /\ read_length = Len(record.seq)

\* C4 as stated: reads returns the identifier of the worker's temporary output
\* when at least one pair was accepted, and None when the worker produced no
\* pair.
C4_Original ==
    (reads_pc = "returned") =>
        ret = (IF Len(read_tuple_list) > 0
               THEN TempFileName(output, record.id, cpu_number)
               ELSE None)

\* C4 amended: reads returns the identifier of the worker's temporary output
\* whenever it returns, also when no pair was accepted; both temporary files
\* then exist, holding what they held before.
C4_AlwaysReturnsName ==
    (reads_pc = "returned") =>
        /\ ret = TempFileName(output, record.id, cpu_number)
        /\ ret # None
        /\ {R1(ret), R2(ret)} \subseteq DOMAIN fs
        /\ (read_tuple_list = <<>>) =>
              (fs[R1(ret)] = Old(R1(ret)) /\ fs[R2(ret)] = Old(R2(ret)))

C4_Witness ==
    /\ reads_pc = "returned"
    /\ gc_bias
    /\ n_pairs = MaxPairs
    /\ read_tuple_list = <<>>
    /\ ret = TempFileName(output, record.id, cpu_number)

\* a is b with some elements left out
RECURSIVE IsSubsequence(_, _)
IsSubsequence(a, b) ==
    IF a = <<>> THEN TRUE
    ELSE IF b = <<>> THEN FALSE
    ELSE IF Head(a) = Head(b) THEN IsSubsequence(Tail(a), Tail(b))
    ELSE IsSubsequence(a, Tail(b))

\* the GC percentage of forward+reverse as a fraction <<numerator, denominator>>
C9_Percent(pair) ==
    LET st == pair[1].seq \o pair[2].seq
        gc == Cardinality({ j \in 1..Len(st) : st[j] \in {"G", "C"} })
    IN  IF Len(st) = 0 THEN <<0, 1>> ELSE <<100 * gc, Len(st)>>

C9_StrictlyInside(pair) ==
    LET q == C9_Percent(pair)
    IN  40 * q[2] < q[1] /\ q[1] < 60 * q[2]

\* C9: the pairs reads hands to the writer. Without GC-bias filtering they are
\* the n_pairs synthesized pairs, indices 0..n_pairs-1 in increasing order.
\* With filtering they are a subsequence of those, in increasing index order,
\* that holds every pair whose forward+reverse GC percentage is strictly
\* between 40 and 60.
C9_AcceptedPairs ==
    (reads_pc \in {"loop", "returned"} /\ i >= n_pairs) =>
        /\ Len(synthesized) = n_pairs
        /\ \A m \in 1..n_pairs :
              /\ synthesized[m][1].id = ReadId(record.id, m - 1, 1)
              /\ synthesized[m][2].id = ReadId(record.id, m - 1, 2)
        /\ ~gc_bias => read_tuple_list = synthesized
        /\ gc_bias =>
              /\ IsSubsequence(read_tuple_list, synthesized)
              /\ \A m \in 1..n_pairs :
                    C9_StrictlyInside(synthesized[m]) =>
                        \E j \in 1..Len(read_tuple_list) :
                            read_tuple_list[j] = synthesized[m]

C9_Witness ==
    /\ reads_pc = "returned"
    /\ gc_bias
    /\ Len(read_tuple_list) = 1
    /\ Len(synthesized) = 2
    /\ C9_StrictlyInside(synthesized[2])
    /\ read_tuple_list[1] = synthesized[2]
    /\ ~C9_StrictlyInside(synthesized[1])

\* C10: to_fastq on k read pairs appends k records to the _R1 file and k to
\* the _R2 file of the prefix and leaves what they held in place; the j-th
\* appended _R1 record is the forward read and the j-th appended _R2 record
\* the reverse read of the j-th pair.
C10_AppendsAlignedRecords ==
    (reads_pc = "returned") =>
        LET prefix == TempFileName(output, record.id, cpu_number)
            k  == Len(read_tuple_list)
            f  == fs[R1(prefix)]
            r  == fs[R2(prefix)]
            f0 == Old(R1(prefix))
            r0 == Old(R2(prefix))
        IN  /\ Len(f) = Len(f0) + k
            /\ Len(r) = Len(r0) + k
            /\ SubSeq(f, 1, Len(f0)) = f0
            /\ SubSeq(r, 1, Len(r0)) = r0
            /\ \A j \in 1..k :
                  /\ f[Len(f0) + j][1] = "@" \o read_tuple_list[j][1].id
                  /\ f[Len(f0) + j][2] = read_tuple_list[j][1].seq
                  /\ Len(f[Len(f0) + j][4]) = Len(read_tuple_list[j][1].qual)
                  /\ r[Len(r0) + j][1] = "@" \o read_tuple_list[j][2].id
                  /\ r[Len(r0) + j][2] = read_tuple_list[j][2].seq
                  /\ Len(r[Len(r0) + j][4]) = Len(read_tuple_list[j][2].qual)

C10_Witness ==
    /\ reads_pc = "returned"
    /\ Len(read_tuple_list) = 2
    /\ R1(TempFileName(output, record.id, cpu_number)) \in DOMAIN fs0
    /\ Len(fs[R1(TempFileName(output, record.id, cpu_number))]) = 3

\* the files the entries of list held at the call, one after the other
RECURSIVE C2_Expected(_, _)
C2_Expected(list, mate) ==
    IF list = <<>>
    THEN <<>>
    ELSE (IF Head(list) = None
          THEN <<>>
          ELSE fs0[IF mate = 1 THEN R1(Head(list)) ELSE R2(Head(list))])
         \o C2_Expected(Tail(list), mate)

\* C2: once concatenate has completed, the final _R1 file is the concatenation,
\* in file_list order, of the _R1 temporary files of the entries that are not
\* None, and the final _R2 file the same concatenation of the _R2 files; what
\* the final files held before the call is gone, and the temporary files are
\* as they were.
C2_OrderedConcatenation ==
    (merge_pc = "concatenate_done") =>
        /\ fs[R1(output)] = C2_Expected(file_list, 1)
        /\ fs[R2(output)] = C2_Expected(file_list, 2)
        /\ \A q \in DOMAIN fs0 \ {R1(output), R2(output)} :
              q \in DOMAIN fs /\ fs[q] = fs0[q]

C2_Witness ==
    /\ merge_pc = "concatenate_done"
    /\ file_list = <<TempFileName("out", "chr2", 1), None,
                     TempFileName("out", "chr1", 0)>>
    /\ R1(output) \in DOMAIN fs0
    /\ Len(fs[R1(output)]) = 3
    /\ fs[R1(output)][3] = fs0[R1(TempFileName("out", "chr1", 0))][1]

\* the step of cleanup on the entry t of file_list
C3_At(t) ==
    /\ merge_pc = "cleanup_loop"
    /\ file_idx <= Len(file_list)
    /\ file_list[file_idx] = t

\* C3 as stated: a prefix whose _R1 and _R2 files both exist has both removed
\* and cleanup continues; a prefix whose _R2 file is missing makes cleanup
\* fatal (exit status 1) and its _R1 file is left undeleted: the failed cleanup
\* of a prefix removes none of its files.
C3_Original ==
    [][\A t \in MergePrefixes :
          /\ (C3_At(t) /\ {R1(t), R2(t)} \subseteq DOMAIN fs) =>
                /\ DOMAIN fs' = DOMAIN fs \ {R1(t), R2(t)}
                /\ merge_pc' = "cleanup_loop"
                /\ file_idx' = file_idx + 1
                /\ exit_status' = 0
          /\ (C3_At(t) /\ R2(t) \notin DOMAIN fs) =>
                /\ merge_pc' = "cleanup_exit"
                /\ exit_status' = 1
                /\ DOMAIN fs' = DOMAIN fs]_vars

\* C3 amended: a prefix whose _R1 and _R2 files both exist has both removed and
\* cleanup continues; a prefix whose _R2 file is missing makes cleanup fatal
\* (exit status 1), and its _R1 file, when it exists, has been removed by then:
\* the failed cleanup leaves every other file in place.
C3_RemovesR1ThenFails ==
    [][\A t \in MergePrefixes :
          /\ (C3_At(t) /\ {R1(t), R2(t)} \subseteq DOMAIN fs) =>
                /\ DOMAIN fs' = DOMAIN fs \ {R1(t), R2(t)}
                /\ merge_pc' = "cleanup_loop"
                /\ file_idx' = file_idx + 1
                /\ exit_status' = 0
          /\ (C3_At(t) /\ R2(t) \notin DOMAIN fs) =>
                /\ merge_pc' = "cleanup_exit"
                /\ exit_status' = 1
                /\ DOMAIN fs' = DOMAIN fs \ {R1(t)}]_vars

C3_Witness ==
    /\ merge_pc = "cleanup_exit"
    /\ exit_status = 1
    /\ file_idx = 2
    /\ {R1(file_list[1]), R2(file_list[1])} \subseteq DOMAIN fs0
    /\ R1(file_list[2]) \in DOMAIN fs0
    /\ R2(file_list[2]) \notin DOMAIN fs0
    /\ DOMAIN fs = DOMAIN fs0 \ {R1(file_list[1]), R2(file_list[1]),
                                 R1(file_list[2])}

\* the 0-based position in the source of a record yielded
PositionOf(rec) == (CHOOSE k \in 1..Len(record_list) : record_list[k] = rec) - 1

\* C6: reservoir with total = len(record_list) records in the source. For
\* 0 <= n < total it yields exactly n records, at distinct positions of the
\* source and in the source's order, and never reads past the end of the
\* source; for n >= total it yields nothing and exits with status 1.
C6_ExactlyNInOrder ==
    LET total == Len(record_list)
    IN  (n # NoSample) =>
          /\ res_pc # "raised"
          /\ records_pos <= total
          /\ \A j \in 1..Len(yielded) :
                \E k \in 1..total : record_list[k] = yielded[j]
          /\ \A j \in 1..(Len(yielded) - 1) :
                PositionOf(yielded[j]) < PositionOf(yielded[j + 1])
          /\ (res_pc = "done") => (n < total /\ Len(yielded) = n)
          /\ (n < total) => (res_pc # "exit" /\ exit_status = 0)
          /\ (n >= total /\ res_pc # "start") =>
                (res_pc = "exit" /\ exit_status = 1 /\ yielded = <<>>)

C6_Witness ==
    /\ res_pc = "done"
    /\ Len(record_list) = 4
    /\ n = 3
    /\ yielded = <<"rec0", "rec1", "rec2">>

\* C7: reservoir selects among all the records of the source: for every
\* 1 <= n < total and every position k in 0..total-1 some outcome of the draw
\* of line 175 holds k, so that the record at k is among the n yielded in some
\* execution.
C7_EveryPositionCanBeDrawn ==
    (res_pc = "sampling" /\ n >= 1) =>
        \A k \in 0..(Len(record_list) - 1) :
            \E chosen \in Samples(Len(record_list), n) :
                \E j \in 1..Len(chosen) : chosen[j] = k

\* what the model does instead: the last record of the source is never yielded
LastRecordNeverYielded ==
    (n # NoSample) =>
        \A j \in 1..Len(yielded) : yielded[j] # record_list[Len(record_list)]

====
